---------------------------- MODULE Spec2Model ----------------------------
(***************************************************************************)
(* Model of src/src/main.rs: a point-to-point tunnel.  Two endpoints       *)
(* (server_mode, client_mode) each run a main flow (socket -> device) and  *)
(* a spawned thread (device -> socket) that share one TunInterface behind  *)
(* a Mutex, and talk over one TCP connection with a 2-byte big-endian      *)
(* length-prefixed framing.                                                *)
(*                                                                         *)
(* Bytes are integers 0..255.  A TCP direction is a sequence of segments   *)
(* (one per write_all call); a single read() returns the bytes of the      *)
(* segments that have arrived so far, cut at the reader's capacity.        *)
(* A [0u8; N] buffer is held as its written prefix: the bytes behind the   *)
(* prefix are the zeros it was created with.                               *)
(*                                                                         *)
(* Spec: two instances of the program, small packets.  BigSpec: the same   *)
(* with device packets longer than the buffers.  RawSpec: one instance     *)
(* against any TCP peer.  CodecSpec: the two framing functions alone.      *)
(* FairSpec: Spec with every program step scheduled.                       *)
(***************************************************************************)
EXTENDS Integers, Sequences, FiniteSets, TLC

\* ------------------------------------------------------------- constants

\* [0u8; 1500]: the capacity of both forwarding buffers
BUF_LEN == 1500

\* 0xFFFF: the largest length send_vpn_packet accepts
MAX_FRAME == 65535

\* the capacity of the BufReader read_line creates (std's default)
READ_CAP == 8192

\* b'\n'
NL == 10

\* the literal "OK\n" the server replies with
OK_LINE == <<79, 75, NL>>

\* the client's my_ip argument ("10.0.0.5"), as bytes
MY_IP == <<49, 48, 46, 48, 46, 48, 46, 53>>

\* ---------------------------------------------------------------- bounds

\* packets the environment makes readable on each device
MaxDevPkts == 2

\* abrupt process terminations (kill) over a run
MaxFaults == 1

\* bytes a peer that is not this program writes to the connection
MaxRawBytes == 6

\* ---------------------------------------------------------- byte helpers

Min(a, b) == IF a < b THEN a ELSE b

\* a packet of n bytes whose i-th byte is (s + i) mod 256
Pkt(n, s) == [i \in 1..n |-> (s + i) % 256]

\* the bytes of a sequence of segments, in order
RECURSIVE Flat(_)
Flat(segs) == IF segs = <<>> THEN <<>> ELSE Head(segs) \o Flat(Tail(segs))

\* number of bytes in a sequence of segments
RECURSIVE Avail(_)
Avail(segs) == IF segs = <<>> THEN 0 ELSE Len(Head(segs)) + Avail(Tail(segs))

\* the segments left after the first n bytes have been read
RECURSIVE DropBytes(_, _)
DropBytes(segs, n) ==
    IF n = 0 \/ segs = <<>> THEN segs
    ELSE IF Len(Head(segs)) <= n
         THEN DropBytes(Tail(segs), n - Len(Head(segs)))
         ELSE <<SubSeq(Head(segs), n + 1, Len(Head(segs)))>> \o Tail(segs)

\* the first n bytes of a sequence of segments (fewer when fewer are there)
TakeBytes(segs, n) ==
    LET all == Flat(segs) IN SubSeq(all, 1, Min(n, Len(all)))

\* index of the first newline of s, 0 when there is none
RECURSIVE NlFrom(_, _)
NlFrom(s, i) == IF i > Len(s) THEN 0 ELSE IF s[i] = NL THEN i ELSE NlFrom(s, i + 1)

NlIndex(s) == NlFrom(s, 1)

\* buf[..Len(data)] = data: the rest of the buffer keeps what it held
Overwrite(buf, data) ==
    IF Len(data) >= Len(buf) THEN data
    ELSE data \o SubSeq(buf, Len(data) + 1, Len(buf))

\* &buf[..n] of a buffer held as its written prefix
Slice(buf, n) == [i \in 1..n |-> IF i <= Len(buf) THEN buf[i] ELSE 0]

\* ----------------------------------------------------------------- codec

\* C6 mutant: the length in little-endian order
U16LE(n) == <<n % 256, (n \div 256) % 256>>

\* (packet.len() as u16).to_be_bytes()
U16BE(n) == <<(n \div 256) % 256, n % 256>>

\* u16::from_be_bytes(len_buf) as usize
FromBE(b) == b[1] * 256 + b[2]

\* send_vpn_packet's guard: packet.len() > 0xFFFF
SendTooLarge(packet) == Len(packet) > MAX_FRAME

\* C19 mutant: no length is too large for the buffer
RecvTooLargeNever(length, cap) == FALSE

\* recv_vpn_packet's guard: length > buf.len()
RecvTooLarge(length, cap) == length > cap

\* ----------------------------------------------------------------- state

Endpoint == {"server", "client"}

Peer(e) == IF e = "server" THEN "client" ELSE "server"

\* what the environment can make readable on a device: a 0-byte read and
\* two small packets
SmallPool == {<<>>, <<69>>, <<70, 71>>}

\* a packet one byte longer than the forwarding buffers; its first two
\* bytes (255, 0), read as a length, exceed every buffer
BigPool == {Pkt(BUF_LEN + 1, 254)}

VARIABLES
    mainpc,      \* where server_mode / client_mode is, per endpoint
    thrpc,       \* where the spawned device -> socket thread is
    lock,        \* who holds the Mutex<TunInterface>: "free", "main", "thr"
    wire,        \* wire[e]: segments e has written that its peer has not read
    sockClosed,  \* e's socket is closed (process returned or was killed)
    listening,   \* the server's TcpListener is bound and open
    connected,   \* the client's connect succeeded
    accepts,     \* number of listener.accept() calls that returned
    line,        \* the String read_line returns
    lineRes,     \* what read_line returned: "none" (not yet), "ok", "err"
    devq,        \* packets readable on e's device, oldest first
    devin,       \* packets written to e's device, oldest first
    injected,    \* every packet that became readable on e's device
    tbuf,        \* the thread's buf
    tn,          \* the thread's n
    mbuf,        \* the main loop's buf
    mlen,        \* recv_vpn_packet's decoded length / the main loop's n
    recvRes,     \* outcome of the last recv_vpn_packet: kind and payload bytes read
    sent,        \* every byte e has written to the connection
    faults,      \* processes killed so far
    pool,        \* the packets the environment may make readable on a device
    codec,       \* the framing functions applied to a stream on their own
    tun,         \* e's TunInterface: "none", "created", "configured", or the call that failed
    lost         \* bytes read_line's BufReader took behind the line and dropped

vars == <<mainpc, thrpc, lock, wire, sockClosed, listening, connected, accepts,
          line, lineRes, devq, devin, injected, tbuf, tn, mbuf, mlen, recvRes, sent,
          faults, pool, codec, tun, lost>>

procVars == <<mainpc, thrpc, lock, wire, sockClosed, listening, connected,
              accepts, line, lineRes, devq, devin, injected, tbuf, tn, mbuf,
              mlen,
              recvRes, sent, faults, pool, tun, lost>>

NoRecv == [kind |-> "none", got |-> 0]

CodecIdle == [phase |-> "idle"]

InitSession ==
    /\ mainpc = [e \in Endpoint |-> IF e = "server" THEN "tun_new" ELSE "connect"]
    /\ thrpc = [e \in Endpoint |-> "unborn"]
    /\ lock = [e \in Endpoint |-> "free"]
    /\ wire = [e \in Endpoint |-> <<>>]
    /\ sockClosed = [e \in Endpoint |-> FALSE]
    /\ listening = FALSE
    /\ connected = FALSE
    /\ accepts = 0
    /\ line = [e \in Endpoint |-> <<>>]
    /\ lineRes = [e \in Endpoint |-> "none"]
    /\ devq = [e \in Endpoint |-> <<>>]
    /\ devin = [e \in Endpoint |-> <<>>]
    /\ injected = [e \in Endpoint |-> <<>>]
    /\ tbuf = [e \in Endpoint |-> <<>>]
    /\ tn = [e \in Endpoint |-> 0]
    /\ mbuf = [e \in Endpoint |-> <<>>]
    /\ mlen = [e \in Endpoint |-> 0]
    /\ recvRes = [e \in Endpoint |-> NoRecv]
    /\ sent = [e \in Endpoint |-> <<>>]
    /\ faults = 0
    /\ tun = [e \in Endpoint |-> "none"]
    /\ lost = [e \in Endpoint |-> <<>>]

Init ==
    /\ InitSession
    /\ pool = SmallPool
    /\ codec = CodecIdle

\* the same program, on a device whose packets can exceed the buffers
InitBig ==
    /\ InitSession
    /\ pool = BigPool
    /\ codec = CodecIdle

\* ------------------------------------------------------------ the socket

\* results write_all can have on e's socket: it fails only once the peer's
\* end is closed, and even then the kernel may still accept the bytes
WriteResults(e) == IF sockClosed[Peer(e)] THEN {TRUE, FALSE} ELSE {TRUE}

\* e's outgoing segments after a successful write_all(bytes)
Written(e, bytes) ==
    IF sockClosed[Peer(e)] \/ bytes = <<>> THEN wire[e] ELSE Append(wire[e], bytes)

\* C14 mutant: a failed device setup is tried again
FailRetries(e) ==
    /\ mainpc' = [mainpc EXCEPT ![e] =
                    IF @ \in {"tun_new", "set_ip"} THEN "tun_new" ELSE "err"]
    /\ sockClosed' = [sockClosed EXCEPT ![e] =
                        IF mainpc[e] \in {"tun_new", "set_ip"} THEN @ ELSE TRUE]
    /\ listening' = IF e = "server" THEN FALSE ELSE listening

\* the function returns Err before the forwarding thread exists: the
\* process ends and its socket and listener are closed
Fail(e) ==
    /\ mainpc' = [mainpc EXCEPT ![e] = "err"]
    /\ sockClosed' = [sockClosed EXCEPT ![e] = TRUE]
    /\ listening' = IF e = "server" THEN FALSE ELSE listening

\* ---------------------------------------------------------- device setup

\* the pc that follows a successful set_ip
AfterSetIp(e) == IF e = "server" THEN "bind" ELSE "spawn"

\* TunInterface::new(tun_name)?
TunNew(e) ==
    /\ mainpc[e] = "tun_new"
    /\ \/ /\ tun' = [tun EXCEPT ![e] = "created"]
          /\ mainpc' = [mainpc EXCEPT ![e] = "set_ip"]
          /\ UNCHANGED <<sockClosed, listening>>
       \/ /\ tun' = [tun EXCEPT ![e] = "new_failed"]
          /\ Fail(e)
    /\ UNCHANGED <<thrpc, lock, wire, connected, accepts, line, devq, devin,
                   injected, tbuf, tn, mbuf, mlen, recvRes, sent, faults,
                   lineRes, pool, codec, lost>>

\* tun.set_ip(cidr)?
SetIp(e) ==
    /\ mainpc[e] = "set_ip"
    /\ \/ /\ tun' = [tun EXCEPT ![e] = "configured"]
          /\ mainpc' = [mainpc EXCEPT ![e] = AfterSetIp(e)]
          /\ UNCHANGED <<sockClosed, listening>>
       \/ /\ tun' = [tun EXCEPT ![e] = "set_ip_failed"]
          /\ Fail(e)
    /\ UNCHANGED <<thrpc, lock, wire, connected, accepts, line, devq, devin,
                   injected, tbuf, tn, mbuf, mlen, recvRes, sent, faults,
                   lineRes, pool, codec, lost>>

\* ------------------------------------------------- connection, handshake

\* TcpListener::bind(..)?
Bind ==
    /\ mainpc["server"] = "bind"
    /\ \/ /\ mainpc' = [mainpc EXCEPT !["server"] = "accept"]
          /\ listening' = TRUE
          /\ UNCHANGED sockClosed
       \/ Fail("server")
    /\ UNCHANGED <<thrpc, lock, wire, connected, accepts, line, devq, devin,
                   injected, tbuf, tn, mbuf, mlen, recvRes, sent, faults, lineRes, pool, codec,
                   tun, lost>>

\* listener.accept()?: blocks until a connection is there
Accept ==
    /\ mainpc["server"] = "accept"
    /\ connected
    /\ mainpc' = [mainpc EXCEPT !["server"] = "read_line"]
    /\ accepts' = accepts + 1
    /\ UNCHANGED <<thrpc, lock, wire, sockClosed, listening, connected, line,
                   devq, devin, injected, tbuf, tn, mbuf, mlen, recvRes, sent,
                   faults, lineRes, pool, codec,
                   tun, lost>>

\* TcpStream::connect(..)?: refused unless the server listens
Connect ==
    /\ mainpc["client"] = "connect"
    /\ IF listening
       THEN /\ connected' = TRUE
            /\ mainpc' = [mainpc EXCEPT !["client"] = "write_addr"]
            /\ UNCHANGED <<sockClosed, listening>>
       ELSE /\ Fail("client")
            /\ UNCHANGED connected
    /\ UNCHANGED <<thrpc, lock, wire, accepts, line, devq, devin, injected,
                   tbuf, tn, mbuf, mlen, recvRes, sent, faults, lineRes, pool, codec,
                   tun, lost>>

\* the line an endpoint writes in the handshake
HandshakeLine(e) == IF e = "server" THEN OK_LINE ELSE MY_IP \o <<NL>>

\* the pc that follows a successful write_line
AfterWriteLine(e) == IF e = "server" THEN "spawn" ELSE "read_line"

\* write_line(&mut stream, ..)?
WriteLine(e) ==
    /\ mainpc[e] = (IF e = "server" THEN "write_ok" ELSE "write_addr")
    /\ \E ok \in WriteResults(e) :
         IF ok
         THEN /\ wire' = [wire EXCEPT ![e] = Written(e, HandshakeLine(e))]
              /\ sent' = [sent EXCEPT ![e] = @ \o HandshakeLine(e)]
              /\ mainpc' = [mainpc EXCEPT ![e] = AfterWriteLine(e)]
              /\ UNCHANGED <<sockClosed, listening>>
         ELSE /\ Fail(e)
              /\ UNCHANGED <<wire, sent>>
    /\ UNCHANGED <<thrpc, lock, connected, accepts, line, devq, devin, injected,
                   tbuf, tn, mbuf, mlen, recvRes, faults, lineRes, pool, codec,
                   tun, lost>>

\* C11 mutant: the client starts forwarding without setting up its device
AfterReadLineSpawns(e) == IF e = "server" THEN "write_ok" ELSE "spawn"

\* the pc that follows a successful read_line
AfterReadLine(e) == IF e = "server" THEN "write_ok" ELSE "tun_new"

\* C10 mutant: the client insists on the literal reply
HandshakeAcceptsOk(e, l) == e = "client" => l = OK_LINE

\* whether the endpoint goes on with the line l it read: server_mode only
\* trims and logs it, client_mode only logs it
HandshakeAccepts(e, l) == TRUE

\* read_line(&mut stream)? returned Ok(l)
ReadLineOk(e, l) ==
    /\ line' = [line EXCEPT ![e] = l]
    /\ lineRes' = [lineRes EXCEPT ![e] = "ok"]
    /\ IF HandshakeAccepts(e, l)
       THEN /\ mainpc' = [mainpc EXCEPT ![e] = AfterReadLine(e)]
            /\ UNCHANGED <<sockClosed, listening>>
       ELSE Fail(e)

\* bytes a BufReader takes off the socket when its read returned chunk and
\* the line ends at index nl of it: the whole chunk, the part behind the
\* newline staying in the reader that read_line drops
ReadLineTaken(chunk, nl) == Len(chunk)

\* read_line: one read() of the BufReader that returned data
ReadLineData(e) ==
    /\ mainpc[e] = "read_line"
    /\ wire[Peer(e)] # <<>>
    /\ \E j \in 1..Len(wire[Peer(e)]) :
         LET arrived == SubSeq(wire[Peer(e)], 1, j)
             chunk == TakeBytes(arrived, READ_CAP)
             nl == NlIndex(chunk)
         IN  /\ wire' = [wire EXCEPT ![Peer(e)] = DropBytes(@, ReadLineTaken(chunk, nl))]
             /\ IF nl > 0
                THEN /\ ReadLineOk(e, line[e] \o SubSeq(chunk, 1, nl))
                     /\ lost' = [lost EXCEPT ![e] =
                                   SubSeq(chunk, nl + 1, ReadLineTaken(chunk, nl))]
                ELSE /\ line' = [line EXCEPT ![e] = @ \o chunk]
                     /\ UNCHANGED <<mainpc, sockClosed, listening, lineRes, lost>>
    /\ UNCHANGED <<thrpc, lock, connected, accepts, devq, devin, injected, tbuf,
                   tn, mbuf, mlen, recvRes, sent, faults, pool, codec, tun>>

\* read_line: the peer's end is closed and nothing is left to read.  The
\* read() returns 0 and BufRead::read_line returns Ok with the bytes read so
\* far, or the read() fails because the connection was reset.
ReadLineClosed(e) ==
    /\ mainpc[e] = "read_line"
    /\ wire[Peer(e)] = <<>>
    /\ sockClosed[Peer(e)]
    /\ \/ ReadLineOk(e, line[e])
       \/ /\ Fail(e)
          /\ lineRes' = [lineRes EXCEPT ![e] = "err"]
          /\ UNCHANGED line
    /\ UNCHANGED <<thrpc, lock, wire, connected, accepts, devq, devin, injected,
                   tbuf, tn, mbuf, mlen, recvRes, sent, faults, pool, codec,
                   tun, lost>>

\* stream.try_clone()?; thread::spawn(..): forwarding starts
Spawn(e) ==
    /\ mainpc[e] = "spawn"
    /\ mainpc' = [mainpc EXCEPT ![e] = "recv_hdr"]
    /\ thrpc' = [thrpc EXCEPT ![e] = "lock"]
    /\ UNCHANGED <<lock, wire, sockClosed, listening, connected, accepts, line,
                   devq, devin, injected, tbuf, tn, mbuf, mlen, recvRes, sent,
                   faults, lineRes, pool, codec,
                   tun, lost>>

\* ------------------------------------------- device -> socket (the thread)

\* C1 mutant: a lock() that returns although a guard is alive
MutexFreeAlways(e) == TRUE

\* whether lock() may return to a caller: only while no guard is alive
MutexFree(e) == lock[e] = "free"

\* the Mutex once the block around read_packet is left: its guard t is
\* dropped there, before send_vpn_packet
LockAfterRead(e) == "free"

\* let mut t = tun_rx.lock().unwrap();
ThrLock(e) ==
    /\ thrpc[e] = "lock"
    /\ MutexFree(e)
    /\ lock' = [lock EXCEPT ![e] = "thr"]
    /\ thrpc' = [thrpc EXCEPT ![e] = "read_pkt"]
    /\ UNCHANGED <<mainpc, wire, sockClosed, listening, connected, accepts, line,
                   devq, devin, injected, tbuf, tn, mbuf, mlen, recvRes, sent,
                   faults, lineRes, pool, codec,
                   tun, lost>>

\* self.file.read(buf): the bytes of one packet that the buffer takes; the
\* device drops what does not fit
ReadPacket(pkt, cap) == SubSeq(pkt, 1, Min(Len(pkt), cap))

\* C16 mutant: the thread's break also takes the main flow out of its loop
ThrBreakEndsSession(e) ==
    /\ thrpc' = [thrpc EXCEPT ![e] = "ended"]
    /\ mainpc' = [mainpc EXCEPT ![e] = IF @ \in {"recv_hdr", "recv_body"} THEN "join" ELSE @]

\* the thread's `break` after error!(..): the closure returns, and the main
\* flow is where it was
ThrBreak(e) ==
    /\ thrpc' = [thrpc EXCEPT ![e] = "ended"]
    /\ UNCHANGED mainpc

\* C18 mutant: a 0-byte read is sent like any other
AfterReadSendsAll(n) == "send_hdr"

\* the thread's test of n behind read_packet: n == 0 is logged and the loop
\* goes round, anything else is sent
AfterRead(n) == IF n = 0 THEN "lock" ELSE "send_hdr"

\* t.read_packet(&mut buf) returns Ok(n): blocks, holding the Mutex, until
\* the device has a packet; then the guard is dropped and n tested
ThrRead(e) ==
    /\ thrpc[e] = "read_pkt"
    /\ devq[e] # <<>>
    /\ LET data == ReadPacket(Head(devq[e]), BUF_LEN)
       IN  /\ tbuf' = [tbuf EXCEPT ![e] = Overwrite(@, data)]
           /\ tn' = [tn EXCEPT ![e] = Len(data)]
           /\ thrpc' = [thrpc EXCEPT ![e] = AfterRead(Len(data))]
    /\ devq' = [devq EXCEPT ![e] = Tail(@)]
    /\ lock' = [lock EXCEPT ![e] = LockAfterRead(e)]
    /\ UNCHANGED <<mainpc, wire, sockClosed, listening, connected, accepts, line,
                   devin, injected, mbuf, mlen, recvRes, sent, faults, lineRes,
                   pool, codec, tun, lost>>

\* t.read_packet(&mut buf) returns Err: the read fails, with or without a
\* packet waiting; the thread breaks out of its loop, dropping the guard
ThrReadErr(e) ==
    /\ thrpc[e] = "read_pkt"
    /\ ThrBreak(e)
    /\ lock' = [lock EXCEPT ![e] = LockAfterRead(e)]
    /\ UNCHANGED <<wire, sockClosed, listening, connected, accepts, line, devq,
                   devin, injected, tbuf, tn, mbuf, mlen, recvRes, sent, faults,
                   lineRes, pool, codec, tun, lost>>

\* C20 mutant: the whole buffer written so far is sent, not its first n bytes
SendArgStale(buf, n) == buf

\* the packet the thread hands to send_vpn_packet: &buf[..n]
SendArg(buf, n) == Slice(buf, n)

\* send_vpn_packet, to stream.write_all(&len)?
ThrSendHdr(e) ==
    /\ thrpc[e] = "send_hdr"
    /\ LET packet == SendArg(tbuf[e], tn[e])
       IN  IF SendTooLarge(packet)
           THEN /\ ThrBreak(e)
                /\ UNCHANGED <<wire, sent>>
           ELSE \E ok \in WriteResults(e) :
                  IF ok
                  THEN /\ wire' = [wire EXCEPT ![e] = Written(e, U16BE(Len(packet)))]
                       /\ sent' = [sent EXCEPT ![e] = @ \o U16BE(Len(packet))]
                       /\ thrpc' = [thrpc EXCEPT ![e] = "send_body"]
                       /\ UNCHANGED mainpc
                  ELSE /\ ThrBreak(e)
                       /\ UNCHANGED <<wire, sent>>
    /\ UNCHANGED <<lock, sockClosed, listening, connected, accepts, line,
                   devq, devin, injected, tbuf, tn, mbuf, mlen, recvRes, faults,
                   lineRes, pool, codec, tun, lost>>

\* send_vpn_packet, stream.write_all(packet)? to its return
ThrSendBody(e) ==
    /\ thrpc[e] = "send_body"
    /\ LET packet == SendArg(tbuf[e], tn[e])
       IN  \E ok \in WriteResults(e) :
             IF ok
             THEN /\ wire' = [wire EXCEPT ![e] = Written(e, packet)]
                  /\ sent' = [sent EXCEPT ![e] = @ \o packet]
                  /\ thrpc' = [thrpc EXCEPT ![e] = "lock"]
                  /\ UNCHANGED mainpc
             ELSE /\ ThrBreak(e)
                  /\ UNCHANGED <<wire, sent>>
    /\ UNCHANGED <<lock, sockClosed, listening, connected, accepts, line,
                   devq, devin, injected, tbuf, tn, mbuf, mlen, recvRes, faults,
                   lineRes, pool, codec, tun, lost>>

\* ------------------------------------------- socket -> device (main loop)

\* stream.read_exact on n bytes: whether it succeeds, the bytes it moved
\* into its buffer, and what is left on the stream
ReadExact(segs, n) ==
    [ok |-> Avail(segs) >= n, data |-> TakeBytes(segs, n), rest |-> DropBytes(segs, n)]

\* C8 mutant: the buffer is cleared before it is read into
RecvFillCleared(buf, data) == data

\* read_exact(&mut buf[..length]): the buffer with the bytes read so far
RecvFill(buf, data) == Overwrite(buf, data)

\* C13 mutant: the server goes back to accept when a session is over
AfterBreakAccepts(e) == IF e = "server" THEN "accept" ELSE "join"

\* the main loop leaves `loop` (break): it never returns to recv_vpn_packet
AfterBreak(e) == "join"

\* recv_vpn_packet, to the length check: read_exact(&mut len_buf) blocks
\* until 2 bytes are there or the stream has ended
RecvHdr(e) ==
    /\ mainpc[e] = "recv_hdr"
    /\ Avail(wire[Peer(e)]) >= 2 \/ sockClosed[Peer(e)]
    /\ LET r == ReadExact(wire[Peer(e)], 2)
       IN  /\ wire' = [wire EXCEPT ![Peer(e)] = r.rest]
           /\ IF ~r.ok
              THEN /\ recvRes' = [recvRes EXCEPT ![e] = [kind |-> "eof_header", got |-> 0]]
                   /\ mainpc' = [mainpc EXCEPT ![e] = AfterBreak(e)]
                   /\ UNCHANGED mlen
              ELSE IF RecvTooLarge(FromBE(r.data), BUF_LEN)
              THEN /\ recvRes' = [recvRes EXCEPT ![e] = [kind |-> "too_large", got |-> 0]]
                   /\ mainpc' = [mainpc EXCEPT ![e] = AfterBreak(e)]
                   /\ UNCHANGED mlen
              ELSE /\ recvRes' = [recvRes EXCEPT ![e] = [kind |-> "header", got |-> 0]]
                   /\ mlen' = [mlen EXCEPT ![e] = FromBE(r.data)]
                   /\ mainpc' = [mainpc EXCEPT ![e] = "recv_body"]
    /\ UNCHANGED <<thrpc, lock, sockClosed, listening, connected, accepts, line,
                   devq, devin, injected, tbuf, tn, mbuf, sent, faults, lineRes, pool, codec,
                   tun, lost>>

\* C17 mutant: a zero-length frame is handled like any other
ZeroLenWritten(n) == FALSE

\* the main loop's test of n behind recv_vpn_packet: n == 0 breaks
ZeroLenBreaks(n) == n = 0

\* recv_vpn_packet, read_exact(&mut buf[..length])? to its return, and the
\* main loop's test of n
RecvBody(e) ==
    /\ mainpc[e] = "recv_body"
    /\ Avail(wire[Peer(e)]) >= mlen[e] \/ sockClosed[Peer(e)]
    /\ LET r == ReadExact(wire[Peer(e)], mlen[e])
       IN  /\ wire' = [wire EXCEPT ![Peer(e)] = r.rest]
           /\ mbuf' = [mbuf EXCEPT ![e] = RecvFill(@, r.data)]
           /\ IF ~r.ok
              THEN /\ recvRes' = [recvRes EXCEPT ![e] = [kind |-> "eof_body", got |-> Len(r.data)]]
                   /\ mainpc' = [mainpc EXCEPT ![e] = AfterBreak(e)]
              ELSE /\ recvRes' = [recvRes EXCEPT ![e] = [kind |-> "ok", got |-> mlen[e]]]
                   /\ mainpc' = [mainpc EXCEPT ![e] =
                                   IF ZeroLenBreaks(mlen[e]) THEN AfterBreak(e)
                                   ELSE "lock_tun"]
    /\ UNCHANGED <<thrpc, lock, sockClosed, listening, connected, accepts, line,
                   devq, devin, injected, tbuf, tn, mlen, sent, faults, lineRes, pool, codec,
                   tun, lost>>

\* let mut t = tun.lock().unwrap();
MainLock(e) ==
    /\ mainpc[e] = "lock_tun"
    /\ MutexFree(e)
    /\ lock' = [lock EXCEPT ![e] = "main"]
    /\ mainpc' = [mainpc EXCEPT ![e] = "write_pkt"]
    /\ UNCHANGED <<thrpc, wire, sockClosed, listening, connected, accepts, line,
                   devq, devin, injected, tbuf, tn, mbuf, mlen, recvRes, sent,
                   faults, lineRes, pool, codec,
                   tun, lost>>

\* C4 mutant: the guard outlives the loop body
LockAfterWriteKept(e) == lock[e]

\* the Mutex at the end of the loop body: the guard t is dropped there,
\* before the next recv_vpn_packet
LockAfterWrite(e) == "free"

\* results self.file.write(buf) can have: the device takes the packet or
\* the write fails
DevWriteResults == {TRUE, FALSE}

\* t.write_packet(&buf[..n]) and the end of the loop body, or the break on
\* Err; the guard t is dropped either way
MainWrite(e) ==
    /\ mainpc[e] = "write_pkt"
    /\ \E ok \in DevWriteResults :
         IF ok
         THEN /\ devin' = [devin EXCEPT ![e] = Append(@, Slice(mbuf[e], mlen[e]))]
              /\ mainpc' = [mainpc EXCEPT ![e] = "recv_hdr"]
         ELSE /\ mainpc' = [mainpc EXCEPT ![e] = AfterBreak(e)]
              /\ UNCHANGED devin
    /\ lock' = [lock EXCEPT ![e] = LockAfterWrite(e)]
    /\ UNCHANGED <<thrpc, wire, sockClosed, listening, connected, accepts, line,
                   devq, injected, tbuf, tn, mbuf, mlen, recvRes, sent, faults,
                   lineRes, pool, codec,
                   tun, lost>>

\* whether tun_tx_handle.join() may return: only once the thread has ended
JoinReturns(e) == thrpc[e] = "ended"

\* tun_tx_handle.join().ok(); Ok(()): the process ends, its socket closes
Join(e) ==
    /\ mainpc[e] = "join"
    /\ JoinReturns(e)
    /\ mainpc' = [mainpc EXCEPT ![e] = "done"]
    /\ sockClosed' = [sockClosed EXCEPT ![e] = TRUE]
    /\ listening' = IF e = "server" THEN FALSE ELSE listening
    /\ UNCHANGED <<thrpc, lock, wire, connected, accepts, line, devq, devin,
                   injected, tbuf, tn, mbuf, mlen, recvRes, sent, faults, lineRes, pool, codec,
                   tun, lost>>

\* ------------------------------------------------------- the environment

\* the device of e exists and is configured
DeviceUp(e) == tun[e] = "configured" /\ mainpc[e] \notin {"err", "done", "dead"}

\* the local stack routes a packet to e's interface (or the device reports
\* a 0-byte read)
DevPacket(e) ==
    /\ DeviceUp(e)
    /\ Len(injected["server"]) + Len(injected["client"]) < MaxDevPkts
    /\ \E p \in pool :
         /\ devq' = [devq EXCEPT ![e] = Append(@, p)]
         /\ injected' = [injected EXCEPT ![e] = Append(@, p)]
    /\ UNCHANGED <<mainpc, thrpc, lock, wire, sockClosed, listening, connected,
                   accepts, line, devin, tbuf, tn, mbuf, mlen, recvRes, sent,
                   faults, lineRes, pool, codec,
                   tun, lost>>

\* the process of e is killed: both its threads stop where they are and the
\* kernel closes its socket, listener and device
Kill(e) ==
    /\ faults < MaxFaults
    /\ mainpc[e] \notin {"err", "done", "dead"}
    /\ faults' = faults + 1
    /\ mainpc' = [mainpc EXCEPT ![e] = "dead"]
    /\ thrpc' = [thrpc EXCEPT ![e] = IF @ = "unborn" THEN @ ELSE "dead"]
    /\ lock' = [lock EXCEPT ![e] = "free"]
    /\ sockClosed' = [sockClosed EXCEPT ![e] = TRUE]
    /\ listening' = IF e = "server" THEN FALSE ELSE listening
    /\ UNCHANGED <<wire, connected, accepts, line, devq, devin, injected, tbuf,
                   tn, mbuf, mlen, recvRes, sent, lineRes, pool, codec,
                   tun, lost>>

\* --------------------------------------------------------- specification

\* one step of the main flow of e
MainStep(e) ==
    \/ TunNew(e)
    \/ SetIp(e)
    \/ WriteLine(e)
    \/ ReadLineData(e)
    \/ ReadLineClosed(e)
    \/ Spawn(e)
    \/ RecvHdr(e)
    \/ RecvBody(e)
    \/ MainLock(e)
    \/ MainWrite(e)
    \/ Join(e)

\* one step of the device -> socket thread of e
ThreadStep(e) ==
    \/ ThrLock(e)
    \/ ThrRead(e)
    \/ ThrSendHdr(e)
    \/ ThrSendBody(e)

Next ==
    \/ Bind
    \/ Accept
    \/ Connect
    \/ \E e \in Endpoint : MainStep(e)
    \/ \E e \in Endpoint : ThreadStep(e)
    \/ \E e \in Endpoint : ThrReadErr(e)
    \/ \E e \in Endpoint : DevPacket(e)
    \/ \E e \in Endpoint : Kill(e)

Spec == Init /\ [][Next]_vars

BigSpec == InitBig /\ [][Next]_vars

\* ------------------------------------- one endpoint against any TCP peer

\* what a peer that is not this program writes in one go: a bare newline, a
\* zero-length frame, a 1-byte frame, and the header of a frame one byte
\* longer than the receive buffer
RawSegs == {<<NL>>, <<0, 0>>, <<0, 1, 69>>, U16BE(BUF_LEN + 1)}

\* the packets the device of the endpoint under test can have
RawPool == {<<69>>}

\* one of the two endpoints is this program; the other end of its
\* connection is some TCP peer (pc "raw"), a server that already listens or
\* a client yet to connect
InitRaw ==
    /\ \E r \in Endpoint :
         /\ mainpc = [e \in Endpoint |->
                        IF e = r THEN "raw"
                        ELSE IF e = "server" THEN "tun_new" ELSE "connect"]
         /\ listening = (r = "server")
    /\ thrpc = [e \in Endpoint |-> "unborn"]
    /\ lock = [e \in Endpoint |-> "free"]
    /\ wire = [e \in Endpoint |-> <<>>]
    /\ sockClosed = [e \in Endpoint |-> FALSE]
    /\ connected = FALSE
    /\ accepts = 0
    /\ line = [e \in Endpoint |-> <<>>]
    /\ lineRes = [e \in Endpoint |-> "none"]
    /\ devq = [e \in Endpoint |-> <<>>]
    /\ devin = [e \in Endpoint |-> <<>>]
    /\ injected = [e \in Endpoint |-> <<>>]
    /\ tbuf = [e \in Endpoint |-> <<>>]
    /\ tn = [e \in Endpoint |-> 0]
    /\ mbuf = [e \in Endpoint |-> <<>>]
    /\ mlen = [e \in Endpoint |-> 0]
    /\ recvRes = [e \in Endpoint |-> NoRecv]
    /\ sent = [e \in Endpoint |-> <<>>]
    /\ faults = 0
    /\ tun = [e \in Endpoint |-> "none"]
    /\ lost = [e \in Endpoint |-> <<>>]
    /\ pool = RawPool
    /\ codec = CodecIdle

\* a client that is not this program connects to the listening server
RawConnect ==
    /\ mainpc["client"] = "raw"
    /\ listening
    /\ ~connected
    /\ connected' = TRUE
    /\ UNCHANGED <<mainpc, thrpc, lock, wire, sockClosed, listening, accepts,
                   line, lineRes, devq, devin, injected, tbuf, tn, mbuf, mlen,
                   recvRes, sent, faults, pool, codec, tun, lost>>

\* the peer r, which is not this program, writes some bytes
RawWrite(r) ==
    /\ mainpc[r] = "raw"
    /\ connected
    /\ \E seg \in RawSegs :
         /\ Len(sent[r]) + Len(seg) <= MaxRawBytes
         /\ wire' = [wire EXCEPT ![r] = Written(r, seg)]
         /\ sent' = [sent EXCEPT ![r] = @ \o seg]
    /\ UNCHANGED <<mainpc, thrpc, lock, sockClosed, listening, connected,
                   accepts, line, lineRes, devq, devin, injected, tbuf, tn, mbuf,
                   mlen, recvRes, faults, pool, codec, tun, lost>>

NextRaw ==
    \/ Next
    \/ RawConnect
    \/ \E r \in Endpoint : RawWrite(r)

RawSpec == InitRaw /\ [][NextRaw]_vars

\* ------------------------------------------ the framing functions alone

\* C7 mutant: the length is written before the size is checked
SendVpnPacketLateCheck(stream, packet, wfail) ==
    IF wfail = 1 THEN [ok |-> FALSE, stream |-> stream]
    ELSE IF SendTooLarge(packet) \/ wfail = 2
         THEN [ok |-> FALSE, stream |-> Append(stream, U16BE(Len(packet)))]
    ELSE [ok |-> TRUE,
          stream |-> Append(stream, U16BE(Len(packet))) \o
                     (IF packet = <<>> THEN <<>> ELSE <<packet>>)]

\* send_vpn_packet(stream, packet) on a stream holding the segments
\* stream; wfail names the write_all that fails (0: none, 1: the length,
\* 2: the packet).  ok: whether it returned Ok; stream: the stream after.
SendVpnPacket(stream, packet, wfail) ==
    IF SendTooLarge(packet) THEN [ok |-> FALSE, stream |-> stream]
    ELSE IF wfail = 1 THEN [ok |-> FALSE, stream |-> stream]
    ELSE IF wfail = 2
         THEN [ok |-> FALSE, stream |-> Append(stream, U16BE(Len(packet)))]
    ELSE [ok |-> TRUE,
          stream |-> Append(stream, U16BE(Len(packet))) \o
                     (IF packet = <<>> THEN <<>> ELSE <<packet>>)]

\* recv_vpn_packet(stream, buf) on a stream that has ended behind the
\* segments stream, with a buffer of cap bytes.  ok: whether it returned
\* Ok; n: the length it returned; buf, stream: the buffer and stream after.
RecvVpnPacket(stream, buf, cap) ==
    LET h == ReadExact(stream, 2)
    IN  IF ~h.ok THEN [ok |-> FALSE, n |-> 0, buf |-> buf, stream |-> h.rest]
        ELSE IF RecvTooLarge(FromBE(h.data), cap)
        THEN [ok |-> FALSE, n |-> 0, buf |-> buf, stream |-> h.rest]
        ELSE LET b == ReadExact(h.rest, FromBE(h.data))
             IN  [ok |-> b.ok, n |-> FromBE(h.data),
                  buf |-> RecvFill(buf, b.data), stream |-> b.rest]

\* packet lengths the functions are applied to: around the byte boundary
\* of the length header, around the forwarding buffers' size and around the
\* largest frame
CodecLens == {0, 1, 2, 255, 256, 257, BUF_LEN, BUF_LEN + 1, MAX_FRAME, MAX_FRAME + 1}

\* buffer capacities recv_vpn_packet is given
CodecCaps == {BUF_LEN, MAX_FRAME}

\* what the receiver's buffer holds before the call
CodecStale == {<<>>, <<9, 9, 9>>}

\* bytes that follow the frame on the stream
Trailer == <<0, 1, 7>>

InitCodec ==
    /\ InitSession
    /\ pool = {}
    /\ \E n \in CodecLens, s \in {0, 255}, c \in CodecCaps, b \in CodecStale,
          w \in 0..2 :
         codec = [phase |-> "start", plen |-> n, pseed |-> s, cap |-> c,
                  wfail |-> w, buf |-> b, stream |-> <<>>, written |-> <<>>,
                  sendOk |-> FALSE, recvOk |-> FALSE, n |-> 0]

\* the packet send_vpn_packet is given: plen bytes counting up from pseed
CodecPacket == Pkt(codec.plen, codec.pseed)

\* send_vpn_packet(&mut stream, &packet); a complete frame is followed by
\* more bytes, a failed send by the end of the stream
CodecSend ==
    /\ codec.phase = "start"
    /\ LET r == SendVpnPacket(codec.stream, CodecPacket, codec.wfail)
       IN  codec' = [codec EXCEPT !.phase = "sent", !.sendOk = r.ok,
                                  !.written = Flat(r.stream),
                                  !.stream = IF r.ok THEN Append(r.stream, Trailer)
                                             ELSE r.stream]
    /\ UNCHANGED procVars

\* recv_vpn_packet(&mut stream, &mut buf) on what was written
CodecRecv ==
    /\ codec.phase = "sent"
    /\ LET r == RecvVpnPacket(codec.stream, codec.buf, codec.cap)
       IN  codec' = [codec EXCEPT !.phase = "received", !.recvOk = r.ok, !.n = r.n,
                                  !.buf = r.buf, !.stream = r.stream]
    /\ UNCHANGED procVars

NextCodec == CodecSend \/ CodecRecv

CodecSpec == InitCodec /\ [][NextCodec]_vars

\* the scheduler runs every thread that can take a step, and a call that
\* can return does; nothing obliges the environment to deliver a packet
\* to a device, to fail a device read or to kill a process
Fairness ==
    /\ WF_vars(Bind)
    /\ WF_vars(Accept)
    /\ WF_vars(Connect)
    /\ \A e \in Endpoint : WF_vars(MainStep(e)) /\ WF_vars(ThreadStep(e))

FairSpec == Spec /\ Fairness

\* ------------------------------------------------------------ properties

\* the pcs of the main flow inside the forwarding loop
LoopPcs == {"recv_hdr", "recv_body", "lock_tun", "write_pkt"}

\* s is a prefix of t
IsPrefix(s, t) == Len(s) <= Len(t) /\ s = SubSeq(t, 1, Len(s))

\* the non-empty packets of a sequence of device reads
RECURSIVE NonEmpty(_)
NonEmpty(ps) ==
    IF ps = <<>> THEN <<>>
    ELSE (IF Head(ps) = <<>> THEN <<>> ELSE <<Head(ps)>>) \o NonEmpty(Tail(ps))

\* C1: on each endpoint the thread's read_packet and the main loop's
\* write_packet are never in progress at the same time.
C1_NoOverlap ==
    \A e \in Endpoint : ~(thrpc[e] = "read_pkt" /\ mainpc[e] = "write_pkt")

\* C1 witness: one flow is inside its device operation while the other has
\* a packet for the device and asks for it.
C1_Witness ==
    \E e \in Endpoint :
        /\ thrpc[e] = "read_pkt"
        /\ mainpc[e] = "lock_tun"
        /\ devin[e] # <<>>

\* C2: a frame the main flow has received is eventually written to the
\* device (unless the process is killed), whatever the device -> socket flow
\* waits for; and a packet read from the device is eventually sent (or its
\* send fails), whatever the peer sends.
C2_NoStall ==
    \A e \in Endpoint :
        /\ (mainpc[e] = "lock_tun") ~> (mainpc[e] \in {"write_pkt", "dead"})
        /\ (thrpc[e] = "send_hdr") ~> (thrpc[e] \in {"lock", "ended", "dead"})

\* C3: once the main flow has left its loop, server_mode / client_mode
\* returns (unless the process is killed first).
C3_Returns ==
    \A e \in Endpoint : (mainpc[e] = "join") ~> (mainpc[e] \in {"done", "dead"})

\* C4: the Mutex is held only inside one device operation: by the main
\* flow only in write_packet, by the thread only in read_packet; so never
\* while either is in send_vpn_packet or recv_vpn_packet.
C4_LockScope ==
    \A e \in Endpoint :
        /\ lock[e] = "main" => mainpc[e] = "write_pkt"
        /\ lock[e] = "thr" => thrpc[e] = "read_pkt"
        /\ mainpc[e] \in {"recv_hdr", "recv_body"} => lock[e] # "main"
        /\ thrpc[e] \in {"send_hdr", "send_body"} => lock[e] # "thr"

\* C4 witness: both flows are in socket I/O after each has held the Mutex
\* for a device operation.
C4_Witness ==
    \E e \in Endpoint :
        /\ mainpc[e] = "recv_hdr"
        /\ devin[e] # <<>>
        /\ thrpc[e] = "send_body"

\* C5: what the peer's main flow writes to its device is, packet by packet
\* and byte for byte, what became readable on this endpoint's device.
C5_Fidelity ==
    \A e \in Endpoint : IsPrefix(devin[Peer(e)], NonEmpty(injected[e]))

\* C6: recv_vpn_packet, given a buffer that can hold P, applied to what a
\* successful send_vpn_packet(P) wrote, returns Ok(len(P)), leaves P in
\* buf[..len(P)], and takes exactly the 2 + len(P) bytes written.
C6_RoundTrip ==
    (/\ codec.phase = "received"
     /\ codec.sendOk
     /\ codec.plen <= codec.cap)
    => /\ codec.recvOk
       /\ codec.n = codec.plen
       /\ Slice(codec.buf, codec.n) = CodecPacket
       /\ Len(codec.written) = 2 + codec.plen
       /\ Flat(codec.stream) = Trailer

\* C6 witness: a round trip of a packet whose length needs the high byte
\* of the header.
C6_Witness ==
    /\ codec.phase = "received"
    /\ codec.sendOk
    /\ codec.recvOk
    /\ codec.plen = 256
    /\ codec.n = 256

\* C7: send_vpn_packet on a packet longer than 65535 bytes returns Err and
\* has written nothing to the stream.
C7_TooLarge ==
    (codec.phase # "start" /\ codec.plen > MAX_FRAME)
    => ~codec.sendOk /\ codec.written = <<>> /\ codec.stream = <<>>

\* C7 witness: send_vpn_packet has returned from a call on 65536 bytes in
\* which no write was set to fail.
C7_Witness ==
    /\ codec.phase = "sent"
    /\ codec.plen = MAX_FRAME + 1
    /\ codec.wfail = 0
    /\ ~codec.sendOk

\* C8: when the stream ends right behind a length header that announces a
\* non-empty packet, recv_vpn_packet returns Err having read no payload
\* byte, the buffer is as it was, nothing is written to the device, and the
\* main flow leaves its loop; after any failed receive it never returns to
\* the loop.
C8_HeaderOnly ==
    /\ [][\A e \in Endpoint :
            (/\ mainpc[e] = "recv_body"
             /\ mlen[e] > 0
             /\ wire[Peer(e)] = <<>>
             /\ mainpc'[e] \notin {"recv_body", "dead"})
            => /\ recvRes'[e] = [kind |-> "eof_body", got |-> 0]
               /\ mbuf'[e] = mbuf[e]
               /\ devin'[e] = devin[e]
               /\ mainpc'[e] = "join"]_vars
    /\ [](\A e \in Endpoint :
            recvRes[e].kind \in {"eof_header", "eof_body", "too_large"}
            => mainpc[e] \in {"join", "done", "dead"})

\* C8 witness: a receive failed behind the header alone, with a buffer that
\* still holds an earlier packet.
C8_Witness ==
    \E e \in Endpoint :
        /\ recvRes[e] = [kind |-> "eof_body", got |-> 0]
        /\ mbuf[e] # <<>>
        /\ mainpc[e] = "join"

\* a line that ends with a newline
CompleteLine(l) == l # <<>> /\ l[Len(l)] = NL

\* C9: an endpoint whose handshake read ended before a whole
\* newline-terminated line never starts forwarding.
C9_HandshakeFails ==
    \A e \in Endpoint :
        (thrpc[e] # "unborn" \/ mainpc[e] \in LoopPcs) => CompleteLine(line[e])

HandshakeDone(e) == lineRes[e] = "ok" /\ IsPrefix(HandshakeLine(e), sent[e])

\* some device read, device write, frame send or frame receive of e has
\* begun, or one of its flows is past its start
FlowActive(e) ==
    \/ thrpc[e] # "unborn"
    \/ mainpc[e] \in LoopPcs \cup {"join", "done"}
    \/ Len(devq[e]) < Len(injected[e])
    \/ tbuf[e] # <<>>
    \/ devin[e] # <<>>
    \/ recvRes[e] # NoRecv
    \/ Len(sent[e]) > Len(HandshakeLine(e))

C12_SessionEnds ==
    [][\A e \in Endpoint :
         /\ thrpc[e] = "ended" => devin'[e] = devin[e]
         /\ mainpc[e] = "join" => sent'[e] = sent[e]]_vars

\* C13: the server's accept returns at most once: before it the count is 0,
\* from then on it is 1 for good, and the server never comes back to accept,
\* during the session or after it.
C13_SingleAccept ==
    /\ [](/\ accepts <= 1
          /\ mainpc["server"] \in {"tun_new", "set_ip", "bind", "accept"} => accepts = 0
          /\ mainpc["server"] \in {"read_line", "write_ok", "spawn", "join", "done"}
                                  \cup LoopPcs => accepts = 1)
    /\ [][/\ accepts' # accepts => mainpc["server"] = "accept" /\ accepts = 0
          /\ accepts >= 1 => mainpc'["server"] # "accept"]_vars

\* C13 witness: the server has returned from a session it served, with one
\* accept made.
C13_Witness ==
    /\ mainpc["server"] = "done"
    /\ accepts = 1
    /\ devin["server"] # <<>>

\* C14: when TunInterface::new or set_ip has failed, the endpoint has
\* returned Err, no flow was ever started and nothing was forwarded; the
\* server has then bound no listener, accepted nothing and written nothing;
\* and the failed call is not made again.
C14_StartupFatal ==
    /\ [](\A e \in Endpoint :
            tun[e] \in {"new_failed", "set_ip_failed"}
            => /\ mainpc[e] = "err"
               /\ thrpc[e] = "unborn"
               /\ devin[e] = <<>>
               /\ recvRes[e] = NoRecv
               /\ e = "server" => ~listening /\ accepts = 0 /\ sent[e] = <<>>)
    /\ [][\A e \in Endpoint :
            tun[e] \in {"new_failed", "set_ip_failed"}
            => tun'[e] = tun[e] /\ mainpc'[e] = mainpc[e]]_vars

\* C14 witness: the server's set_ip failed, and the client's connect found
\* nothing listening.
C14_Witness ==
    /\ tun["server"] = "set_ip_failed"
    /\ mainpc["client"] = "err"
    /\ ~connected

\* C15: the client's read_line takes the reply line off the stream and
\* nothing else: while the client has received no frame yet, the line it
\* read followed by what is still unread is all the server has written.
C15_ExactLine ==
    (/\ lineRes["client"] = "ok"
     /\ mainpc["client"] \in {"tun_new", "set_ip", "spawn"})
    => line["client"] \o Flat(wire["server"]) = sent["server"]

\* the outcomes of recv_vpn_packet that are an Err
RecvErrKinds == {"eof_header", "eof_body", "too_large"}

\* C16: a step that ends the thread (read or send error) leaves the main
\* flow, its buffer, its last receive and its socket as they were and the
\* Mutex free; behind an ended thread the main flow leaves its loop only by
\* its own zero-length frame, receive failure or device write failure, finds
\* the Mutex free when it asks for it, and never returns Err.
C16_ThreadOnly ==
    /\ [][\A e \in Endpoint :
            (thrpc[e] \in {"read_pkt", "send_hdr", "send_body"} /\ thrpc'[e] = "ended")
            => /\ mainpc'[e] = mainpc[e]
               /\ recvRes'[e] = recvRes[e]
               /\ mbuf'[e] = mbuf[e]
               /\ devin'[e] = devin[e]
               /\ sockClosed'[e] = sockClosed[e]
               /\ lock'[e] # "thr"]_vars
    /\ [][\A e \in Endpoint :
            (/\ thrpc[e] = "ended"
             /\ mainpc[e] \in LoopPcs
             /\ mainpc'[e] \notin LoopPcs \cup {"dead"})
            => /\ mainpc'[e] = "join"
               /\ \/ mainpc[e] = "write_pkt" /\ devin'[e] = devin[e]
                  \/ mainpc[e] = "recv_hdr" /\ recvRes'[e].kind \in RecvErrKinds
                  \/ mainpc[e] = "recv_body" /\ recvRes'[e].kind \in RecvErrKinds
                  \/ mainpc[e] = "recv_body" /\ recvRes'[e] = [kind |-> "ok", got |-> 0]]_vars
    /\ [](\A e \in Endpoint :
            thrpc[e] = "ended"
            => /\ mainpc[e] # "err"
               /\ mainpc[e] = "lock_tun" => lock[e] = "free")

\* C16 witness: the thread has ended on a device read error (the peer's end
\* is open, so no send failed), and the main flow has since taken the Mutex
\* and is writing a received packet to the device.
C16_Witness ==
    \E e \in Endpoint :
        /\ thrpc[e] = "ended"
        /\ ~sockClosed[Peer(e)]
        /\ mainpc[e] = "write_pkt"
        /\ lock[e] = "main"

\* C17: the main flow never writes a zero-length packet to the device; a
\* zero-length frame, a failed receive and a failed device write each take
\* it out of its loop with nothing written; and once out it neither
\* receives nor writes again.
C17_MainLoopEnds ==
    /\ [](\A e \in Endpoint : \A i \in 1..Len(devin[e]) : devin[e][i] # <<>>)
    /\ [][\A e \in Endpoint :
            /\ (mainpc[e] = "recv_body" /\ mlen[e] = 0
                /\ mainpc'[e] \notin {"recv_body", "dead"})
               => mainpc'[e] = "join" /\ devin'[e] = devin[e]
            /\ (recvRes'[e] # recvRes[e] /\ recvRes'[e].kind \in RecvErrKinds)
               => mainpc'[e] = "join" /\ devin'[e] = devin[e]
            /\ (mainpc[e] = "write_pkt" /\ devin'[e] = devin[e]
                /\ mainpc'[e] \notin {"write_pkt", "dead"})
               => mainpc'[e] = "join"
            /\ mainpc[e] \in {"join", "done"}
               => /\ mainpc'[e] \in {"join", "done", "dead"}
                  /\ devin'[e] = devin[e]
                  /\ recvRes'[e] = recvRes[e]
                  /\ mbuf'[e] = mbuf[e]
                  /\ Avail(wire'[Peer(e)]) >= Avail(wire[Peer(e)])]_vars

\* C17 witness: the main flow has written one packet to the device and has
\* then left its loop on a zero-length frame, all of it read.
C17_Witness ==
    \E e \in Endpoint :
        /\ mainpc[e] = "join"
        /\ recvRes[e] = [kind |-> "ok", got |-> 0]
        /\ devin[e] = << <<69>> >>
        /\ wire[Peer(e)] = <<>>

\* C18: the thread is never in send_vpn_packet with n = 0; and a read that
\* takes a 0-byte result off the device writes nothing to the connection,
\* drops the guard and brings the thread back to the top of its loop.
C18_ZeroRead ==
    /\ [](\A e \in Endpoint : thrpc[e] \in {"send_hdr", "send_body"} => tn[e] > 0)
    /\ [][\A e \in Endpoint :
            (/\ thrpc[e] = "read_pkt"
             /\ devq[e] # <<>>
             /\ Len(devq'[e]) < Len(devq[e])
             /\ Head(devq[e]) = <<>>)
            => /\ thrpc'[e] = "lock"
               /\ lock'[e] = "free"
               /\ sent' = sent
               /\ wire' = wire]_vars

\* C18 witness: after a 0-byte read the thread has read again and is
\* sending the packet it then got, having sent nothing for the first.
C18_Witness ==
    \E e \in Endpoint :
        /\ injected[e] = << <<>>, <<69>> >>
        /\ thrpc[e] = "send_body"
        /\ sent[e] = HandshakeLine(e) \o <<0, 1>>

\* offset k of the byte stream s is where a frame starts, frames being
\* laid end to end from offset pos
RECURSIVE Boundary(_, _, _)
Boundary(s, pos, k) ==
    IF pos = k THEN TRUE
    ELSE IF pos > k \/ pos + 2 > Len(s) THEN FALSE
    ELSE Boundary(s, pos + 2 + FromBE(<<s[pos + 1], s[pos + 2]>>), k)

RECURSIVE Frames(_)
Frames(ps) ==
    IF ps = <<>> THEN <<>>
    ELSE U16BE(Len(Head(ps))) \o Head(ps) \o Frames(Tail(ps))

\* what the device reads of e's thread returned so far, 0-byte reads left out
ReadsOf(e) ==
    NonEmpty([i \in 1..(Len(injected[e]) - Len(devq[e])) |->
                 ReadPacket(injected[e][i], BUF_LEN)])

\* all but the last element
Front(ps) == SubSeq(ps, 1, Len(ps) - 1)

\* C20: what an endpoint has written is nothing, or its handshake line
\* followed by the frames of its non-empty device reads in order; the frame
\* of the last read may be missing or cut behind its header only while the
\* thread is sending it or after the thread has stopped.
C20_WellFormed ==
    \A e \in Endpoint :
        LET hl == HandshakeLine(e)
            rs == ReadsOf(e)
            frames == SubSeq(sent[e], Len(hl) + 1, Len(sent[e]))
        IN  /\ sent[e] = <<>> \/ IsPrefix(hl, sent[e])
            /\ sent[e] = <<>> => rs = <<>>
            /\ \/ /\ frames = Frames(rs)
                  /\ thrpc[e] \in {"unborn", "lock", "read_pkt", "ended", "dead"}
               \/ /\ rs # <<>>
                  /\ frames = Frames(Front(rs))
                  /\ thrpc[e] \in {"send_hdr", "ended", "dead"}
               \/ /\ rs # <<>>
                  /\ frames = Frames(Front(rs)) \o U16BE(Len(rs[Len(rs)]))
                  /\ thrpc[e] \in {"send_body", "ended", "dead"}

\* C20 witness: two packets read from one device are on the wire as two
\* whole frames, in the order read, behind the handshake line.
C20_Witness ==
    \E e \in Endpoint :
        /\ injected[e] = << <<70, 71>>, <<69>> >>
        /\ sent[e] = HandshakeLine(e) \o <<0, 2, 70, 71, 0, 1, 69>>

=============================================================================
